---- MODULE Spec2Model ----
(***************************************************************************)
(* The Blackjack round engine of game.py (BlackjackEnv) and of             *)
(* reverse_game.py (ReverseBlackjackEnv), with the Shoe and Hand classes.  *)
(*                                                                         *)
(* A method of the engine is an operator on a record s that holds the      *)
(* object's attributes together with s.ds, the cards the shoe yields       *)
(* during the call, in order.  s.starved is set when the call asks for a   *)
(* card that s.ds does not hold; Runs enumerates the card sequences a      *)
(* call consumes exactly.  Rewards are counted in units of                 *)
(* 1/natural_payout[2] of a stake, so that 1.5 stakes is an integer.       *)
(*                                                                         *)
(* Spec is a round under any caller, PlaySpec a round played by the        *)
(* RandomAgent of agents/random_agent.py; ShoeSpec is a Shoe and HandSpec  *)
(* a Hand on their own, AgentSpec the QLearningAgent of                    *)
(* agents/q_learning.py, whose floats are kept as exact fractions.         *)
(***************************************************************************)
EXTENDS Integers, Sequences, FiniteSets, TLC

VARIABLES
    variant,             \* "standard": BlackjackEnv, "reverse": ReverseBlackjackEnv
    dealer_hits_soft17,  \* BlackjackEnv.dealer_hits_soft17
    shoe_num_decks,            \* Shoe.num_decks
    shoe_reshuffle_threshold,  \* Shoe.reshuffle_threshold
    cards,               \* Shoe.cards, as the number of cards of each rank in the pile
    since_rebuild,       \* the cards Shoe.draw() returned since the pile was last built
    dealer,              \* BlackjackEnv.dealer.cards
    player_hands,        \* BlackjackEnv.player_hands, each hand its cards
    bets,                \* BlackjackEnv.bets
    current_hand,        \* BlackjackEnv.current_hand (0-based, as in the code)
    done,                \* BlackjackEnv.done
    outcomes,            \* BlackjackEnv.outcomes
    ret,                 \* what the last call of reset()/step() returned or raised
    total_reward,        \* the driver's sum of the step rewards of the round
    drawn,               \* the cards Shoe.draw() returned since the round's reset()
    steps,               \* the calls of step() that returned since the round's reset()
    hand_cards,          \* Hand.cards of a hand built on its own
    alpha,               \* QLearningAgent.alpha
    gamma,               \* QLearningAgent.gamma
    epsilon,             \* QLearningAgent.epsilon
    Q,                   \* QLearningAgent.Q: the rows stored by state key, and the default factory
    file,                \* the file save() wrote
    observed             \* the calls of QLearningAgent.observe() made

\* The engine and its driver.
engine_vars == <<variant, dealer_hits_soft17, dealer, player_hands, bets,
                 current_hand, done, outcomes, total_reward, drawn, steps>>

\* The parameters of the shoe.
shoe_params == <<shoe_num_decks, shoe_reshuffle_threshold>>

\* The parameters of the learner.
agent_params == <<alpha, gamma, epsilon>>

\* The learner.
agent_vars == <<agent_params, Q, file, observed>>

vars == <<engine_vars, shoe_params, cards, since_rebuild, ret, hand_cards,
          agent_vars>>

----------------------------------------------------------------------------
\* Bounds of the model.

\* How many of the thirteen ranks the shoe holds (the first NumRanks of RankPick).
NumRanks == 3
\* A Hit is taken only on a hand of fewer than MaxHandCards cards.
MaxHandCards == 3
\* A step that draws is taken only if it leaves the player's hands with at most
\* MaxCards cards together (Hit and Double draw one card, Split two).
MaxCards == 5
\* The shoes built on their own hold 1..MaxDecks decks.
MaxDecks == 2
\* The learner on its own takes at most MaxObserve calls of observe().
MaxObserve == 2
\* The dealer's hands the keys of a round are compared with hold at most
\* MaxDealerCards cards.
MaxDealerCards == 5

----------------------------------------------------------------------------
\* Constants of game.py.

ACTION_HIT == 0
ACTION_STAND == 1
ACTION_DOUBLE == 2
ACTION_SPLIT == 3

RESULT_BLACKJACK == "blackjack"
RESULT_WIN == "win"
RESULT_LOSS == "loss"
RESULT_PUSH == "push"

AllRanks == {"A", "2", "3", "4", "5", "6", "7", "8", "9", "10", "J", "Q", "K"}

VALUE_MAP ==
    [c \in AllRanks |->
        CASE c = "A" -> 1
          [] c = "2" -> 2 [] c = "3" -> 3 [] c = "4" -> 4 [] c = "5" -> 5
          [] c = "6" -> 6 [] c = "7" -> 7 [] c = "8" -> 8 [] c = "9" -> 9
          [] OTHER -> 10]

\* The ranks, in the order in which the bound NumRanks admits them.
RankPick == <<"A", "10", "6", "K", "8", "2", "5", "J", "9", "3", "7", "4", "Q">>

Ranks == {RankPick[i] : i \in 1..NumRanks}

\* BlackjackEnv.__init__ defaults.  natural_payout is 1.5, kept as 3/2.
\* num_decks and reshuffle_threshold are the defaults the shoe is built with.
natural_payout == <<3, 2>>
num_decks == 1
reshuffle_threshold == 15
\* The four suits of a deck: ranks * 4 * num_decks.
SuitsPerDeck == 4

\* One stake, in reward units.
Stake == natural_payout[2]

----------------------------------------------------------------------------
\* Shoe

RECURSIVE CountTo(_, _)
CountTo(pile, n) == IF n = 0 THEN 0 ELSE pile[RankPick[n]] + CountTo(pile, n - 1)

\* len(self.cards)
ShoeLen(pile) == CountTo(pile, NumRanks)

\* Shoe._build_shoe: every rank, 4 * num_decks times, shuffled.  The order of
\* the shuffled pile is settled card by card, when draw() pops it.
build_shoe == [r \in Ranks |-> SuitsPerDeck * shoe_num_decks]

\* Rebuilds, the pile rebuilt only once it is empty.
Rebuilds_empty(pile) == ShoeLen(pile) = 0

\* The test of draw(): len(self.cards) < self.reshuffle_threshold.
Rebuilds(pile) == ShoeLen(pile) < shoe_reshuffle_threshold

\* The pile draw() pops from: rebuilt first when below the threshold.
PileAtDraw(pile) == IF Rebuilds(pile) THEN build_shoe ELSE pile

\* The ranks draw() can return; none when popleft() finds the pile empty.
Drawable(pile) == {c \in Ranks : PileAtDraw(pile)[c] > 0}

\* Shoe.draw, returning c: the pile it leaves.
draw(pile, c) == [PileAtDraw(pile) EXCEPT ![c] = @ - 1]

RECURSIVE Since(_, _, _)
\* The cards draw() returned since the pile was last built, n of them before
\* the shoe in state pile yields the cards ds.
Since(n, pile, ds) ==
    IF ds = <<>> THEN n
    ELSE Since(IF Rebuilds(pile) THEN 1 ELSE n + 1, draw(pile, Head(ds)), Tail(ds))

----------------------------------------------------------------------------
\* Hand

RECURSIVE Total(_)
\* sum(VALUE_MAP[c] for c in self.cards)
Total(h) == IF h = <<>> THEN 0 ELSE VALUE_MAP[Head(h)] + Total(Tail(h))

HasAce(h) == \E i \in 1..Len(h) : h[i] = "A"

value(h) == IF HasAce(h) /\ Total(h) + 10 <= 21 THEN Total(h) + 10 ELSE Total(h)

usable_ace(h) == HasAce(h) /\ value(h) # Total(h)

is_bust(h) == value(h) > 21

\* can_split, a pair being two cards of equal value.
can_split_byvalue(h) == Len(h) = 2 /\ VALUE_MAP[h[1]] = VALUE_MAP[h[2]]

can_split(h) == Len(h) = 2 /\ h[1] = h[2]

----------------------------------------------------------------------------
\* The engine's methods.

\* The observation of a finished round: {}.
EmptyObs == [player |-> <<>>, empty |-> TRUE]

\* self: the attributes of the engine, as the record the methods work on.
Self ==
    [variant |-> variant, dealer_hits_soft17 |-> dealer_hits_soft17,
     dealer |-> dealer, player_hands |-> player_hands, bets |-> bets,
     current_hand |-> current_hand, done |-> done, outcomes |-> outcomes,
     ds |-> <<>>, starved |-> FALSE]

\* return obs, reward, done, info
Return(s, obs, reward, d) ==
    [self |-> s, raised |-> "none", obs |-> obs, reward |-> reward, done |-> d]

\* return self._get_obs(), of reset()
ReturnObs(s, obs) == [self |-> s, raised |-> "none", obs |-> obs]

\* raise error(message) / a failed assert: the call is left, nothing is returned.
Raise(s, error, message) ==
    [self |-> s, raised |-> error, message |-> message]

\* The call asked the shoe for a card that s.ds does not hold.
Starve(s) == [self |-> [s EXCEPT !.starved = TRUE], raised |-> "none"]

\* hand.add(self.shoe.draw()) on player hand i (1-based).
HandDraws(s, i) ==
    [s EXCEPT !.player_hands[i] = Append(@, Head(s.ds)), !.ds = Tail(s.ds)]

\* self.dealer.add(self.shoe.draw())
DealerDraws(s) == [s EXCEPT !.dealer = Append(@, Head(s.ds)), !.ds = Tail(s.ds)]

\* get_obs, the dealer's second card shown.
get_obs_hole(s) ==
    LET hand == s.player_hands[s.current_hand + 1] IN
    [player |-> hand,
     dealer_up |-> s.dealer[2],
     usable_ace |-> usable_ace(hand),
     can_split |-> can_split(hand),
     can_double |-> Len(hand) = 2]

\* BlackjackEnv._get_obs
get_obs(s) ==
    LET hand == s.player_hands[s.current_hand + 1] IN
    [player |-> hand,
     dealer_up |-> s.dealer[1],
     usable_ace |-> usable_ace(hand),
     can_split |-> can_split(hand),
     can_double |-> Len(hand) = 2]

\* ReverseBlackjackEnv._get_obs
Reverse_get_obs(s) ==
    LET hand == s.player_hands[s.current_hand + 1] IN
    [player |-> hand,
     dealer_cards |-> s.dealer,
     dealer_value |-> value(s.dealer),
     usable_ace |-> usable_ace(hand),
     can_split |-> can_split(hand),
     can_double |-> Len(hand) = 2]

\* self._get_obs()
self_get_obs(s) == IF s.variant = "reverse" THEN Reverse_get_obs(s) ELSE get_obs(s)

\* MustDraw, the dealer drawing on every 17.
MustDraw_on17(d, hits_soft17) == value(d) <= 17

\* The condition of the loop of BlackjackEnv._dealer_play:
\* val < 17 or (self.dealer_hits_soft17 and val == 17 and soft).
MustDraw(d, hits_soft17) ==
    LET val == value(d)
        soft == usable_ace(d)
    IN val < 17 \/ (hits_soft17 /\ val = 17 /\ soft)

RECURSIVE DealerLoop(_)
\* The while loop of BlackjackEnv._dealer_play.
DealerLoop(s) ==
    IF MustDraw(s.dealer, s.dealer_hits_soft17)
    THEN IF s.ds = <<>> THEN [s EXCEPT !.starved = TRUE]
         ELSE DealerLoop(DealerDraws(s))
    ELSE s

\* The condition of the loop of ReverseBlackjackEnv._dealer_play_initial.
Reverse_MustDraw(d, hits_soft17) ==
    LET val == value(d)
        soft == usable_ace(d)
    IN val < 17 \/ (hits_soft17 /\ val = 17 /\ soft)

RECURSIVE Reverse_DealerLoop(_)
\* The while loop of ReverseBlackjackEnv._dealer_play_initial.
Reverse_DealerLoop(s) ==
    IF Reverse_MustDraw(s.dealer, s.dealer_hits_soft17)
    THEN IF s.ds = <<>> THEN [s EXCEPT !.starved = TRUE]
         ELSE Reverse_DealerLoop(DealerDraws(s))
    ELSE s

\* HandResult, a hand that ties with the dealer winning.
HandResult_tiewins(hand, bet, d) ==
    LET hv == value(hand)
        d_val == value(d)
        d_bust == d_val > 21
    IN IF Len(hand) = 2 /\ hv = 21
       THEN [outcome |-> RESULT_BLACKJACK, reward |-> bet * natural_payout[1]]
       ELSE IF hv > 21
       THEN [outcome |-> RESULT_LOSS, reward |-> -(bet * Stake)]
       ELSE IF d_bust \/ hv >= d_val
       THEN [outcome |-> RESULT_WIN, reward |-> bet * Stake]
       ELSE [outcome |-> RESULT_LOSS, reward |-> -(bet * Stake)]

\* The body of the settlement loop of BlackjackEnv._dealer_play for one hand.
HandResult(hand, bet, d) ==
    LET hv == value(hand)
        d_val == value(d)
        d_bust == d_val > 21
    IN IF Len(hand) = 2 /\ hv = 21
       THEN [outcome |-> RESULT_BLACKJACK, reward |-> bet * natural_payout[1]]
       ELSE IF hv > 21
       THEN [outcome |-> RESULT_LOSS, reward |-> -(bet * Stake)]
       ELSE IF d_bust \/ hv > d_val
       THEN [outcome |-> RESULT_WIN, reward |-> bet * Stake]
       ELSE IF hv < d_val
       THEN [outcome |-> RESULT_LOSS, reward |-> -(bet * Stake)]
       ELSE [outcome |-> RESULT_PUSH, reward |-> 0]

\* The body of the settlement loop of ReverseBlackjackEnv._dealer_play.
Reverse_HandResult(hand, bet, d) ==
    LET hv == value(hand)
        d_val == value(d)
        d_bust == d_val > 21
    IN IF Len(hand) = 2 /\ hv = 21
       THEN [outcome |-> RESULT_BLACKJACK, reward |-> bet * natural_payout[1]]
       ELSE IF hv > 21
       THEN [outcome |-> RESULT_LOSS, reward |-> -(bet * Stake)]
       ELSE IF d_bust \/ hv > d_val
       THEN [outcome |-> RESULT_WIN, reward |-> bet * Stake]
       ELSE IF hv < d_val
       THEN [outcome |-> RESULT_LOSS, reward |-> -(bet * Stake)]
       ELSE [outcome |-> RESULT_PUSH, reward |-> 0]

\* for hand, bet in zip(self.player_hands, self.bets)
ZipLen(s) == IF Len(s.player_hands) < Len(s.bets) THEN Len(s.player_hands) ELSE Len(s.bets)

RECURSIVE SumSeq(_)
SumSeq(q) == IF q = <<>> THEN 0 ELSE Head(q) + SumSeq(Tail(q))

\* The settlement of BlackjackEnv._dealer_play, after the dealer's loop.
Settle(s) ==
    LET res == [i \in 1..ZipLen(s) |-> HandResult(s.player_hands[i], s.bets[i], s.dealer)]
        rewards == [i \in 1..ZipLen(s) |-> res[i].reward]
        s1 == [s EXCEPT !.outcomes = @ \o [i \in 1..ZipLen(s) |-> res[i].outcome],
                        !.done = TRUE]
    IN Return(s1, EmptyObs, SumSeq(rewards), TRUE)

\* BlackjackEnv._dealer_play
dealer_play(s) ==
    LET s1 == DealerLoop(s) IN
    IF s1.starved THEN Starve(s1) ELSE Settle(s1)

\* Reverse_dealer_play, the dealer drawing a card before the hands are settled.
Reverse_dealer_play_draws(s) ==
    IF s.ds = <<>> THEN Starve(s)
    ELSE
    LET d == DealerDraws(s)
        res == [i \in 1..ZipLen(d) |->
                   Reverse_HandResult(d.player_hands[i], d.bets[i], d.dealer)]
        rewards == [i \in 1..ZipLen(d) |-> res[i].reward]
        s1 == [d EXCEPT !.outcomes = @ \o [i \in 1..ZipLen(d) |-> res[i].outcome],
                        !.done = TRUE]
    IN Return(s1, EmptyObs, SumSeq(rewards), TRUE)

\* ReverseBlackjackEnv._dealer_play
Reverse_dealer_play(s) ==
    LET res == [i \in 1..ZipLen(s) |->
                   Reverse_HandResult(s.player_hands[i], s.bets[i], s.dealer)]
        rewards == [i \in 1..ZipLen(s) |-> res[i].reward]
        s1 == [s EXCEPT !.outcomes = @ \o [i \in 1..ZipLen(s) |-> res[i].outcome],
                        !.done = TRUE]
    IN Return(s1, EmptyObs, SumSeq(rewards), TRUE)

\* self._dealer_play(info)
self_dealer_play(s) ==
    IF s.variant = "reverse" THEN Reverse_dealer_play(s) ELSE dealer_play(s)

\* finalize_hand, the loss of the bust hand left to the settlement.
finalize_hand_unpaid(s, reward) ==
    LET s1 == [s EXCEPT !.outcomes = Append(@, RESULT_LOSS),
                        !.current_hand = @ + 1]
    IN IF s1.current_hand < Len(s1.player_hands)
       THEN Return(s1, self_get_obs(s1), 0, FALSE)
       ELSE Return([s1 EXCEPT !.done = TRUE], EmptyObs, reward, TRUE)

\* finalize_hand, the outcome of the bust hand not logged.
finalize_hand_unlogged(s, reward) ==
    LET s1 == [s EXCEPT !.current_hand = @ + 1]
    IN IF s1.current_hand < Len(s1.player_hands)
       THEN Return(s1, self_get_obs(s1), reward, FALSE)
       ELSE Return([s1 EXCEPT !.done = TRUE], EmptyObs, reward, TRUE)

\* finalize_hand, the round ended by the bust whether or not a hand remains.
finalize_hand_ends(s, reward) ==
    LET s1 == [s EXCEPT !.outcomes = Append(@, RESULT_LOSS),
                        !.current_hand = @ + 1]
    IN IF s1.current_hand < Len(s1.player_hands)
       THEN Return([s1 EXCEPT !.done = TRUE], self_get_obs(s1), reward, TRUE)
       ELSE Return([s1 EXCEPT !.done = TRUE], EmptyObs, reward, TRUE)

\* BlackjackEnv._finalize_hand
finalize_hand(s, reward) ==
    LET s1 == [s EXCEPT !.outcomes = Append(@, RESULT_LOSS),
                        !.current_hand = @ + 1]
    IN IF s1.current_hand < Len(s1.player_hands)
       THEN Return(s1, self_get_obs(s1), reward, FALSE)
       ELSE Return([s1 EXCEPT !.done = TRUE], EmptyObs, reward, TRUE)

\* next_or_dealer, the cursor left in place while another hand remains.
next_or_dealer_stays(s) ==
    LET hand == s.player_hands[s.current_hand + 1]
        reward_is_None == ~is_bust(hand)
        reward == -(s.bets[s.current_hand + 1] * Stake)
        s1 == [s EXCEPT !.current_hand = @ + 1]
    IN IF s1.current_hand < Len(s1.player_hands)
       THEN Return(s, self_get_obs(s),
                   IF reward_is_None \/ reward = 0 THEN 0 ELSE reward, FALSE)
       ELSE self_dealer_play(s1)

\* BlackjackEnv._next_or_dealer.  reward is None unless the hand is bust;
\* "reward or 0.0" is 0.0 for None and for 0.
next_or_dealer(s) ==
    LET hand == s.player_hands[s.current_hand + 1]
        reward_is_None == ~is_bust(hand)
        reward == -(s.bets[s.current_hand + 1] * Stake)
        s1 == [s EXCEPT !.current_hand = @ + 1]
    IN IF s1.current_hand < Len(s1.player_hands)
       THEN Return(s1, self_get_obs(s1),
                   IF reward_is_None \/ reward = 0 THEN 0 ELSE reward, FALSE)
       ELSE self_dealer_play(s1)

\* DoubleAllowed, the test left out.
DoubleAllowed_always(hand) == TRUE

\* The legality test of ACTION_DOUBLE: len(hand.cards) != 2 raises.
DoubleAllowed(hand) == Len(hand) = 2

\* The legality test of ACTION_SPLIT: not hand.can_split() raises.
SplitAllowed(hand) == can_split(hand)

\* list.insert(i, x), i 0-based.
Insert(q, i, x) == SubSeq(q, 1, i) \o <<x>> \o SubSeq(q, i + 1, Len(q))

\* Split, the new hand staked twice the bet of the hand it comes from.
Split_twice(s) ==
    LET i == s.current_hand + 1
        hand == s.player_hands[i]
        card == hand[Len(hand)]
        s1 == [s EXCEPT !.player_hands =
                            Insert([@ EXCEPT ![i] = SubSeq(hand, 1, Len(hand) - 1)],
                                   s.current_hand + 1, <<card>>),
                        !.bets = Insert(@, s.current_hand + 1, s.bets[i] * 2)]
        s2 == HandDraws(s1, i)
        s3 == HandDraws(s2, i + 1)
    IN IF Len(s.ds) < 2 THEN Starve(s) ELSE Return(s3, self_get_obs(s3), 0, FALSE)

\* Split, the new hand drawing before the hand at the cursor.
Split_newfirst(s) ==
    LET i == s.current_hand + 1
        hand == s.player_hands[i]
        card == hand[Len(hand)]
        s1 == [s EXCEPT !.player_hands =
                            Insert([@ EXCEPT ![i] = SubSeq(hand, 1, Len(hand) - 1)],
                                   s.current_hand + 1, <<card>>),
                        !.bets = Insert(@, s.current_hand + 1, s.bets[i])]
        s2 == HandDraws(s1, i + 1)
        s3 == HandDraws(s2, i)
    IN IF Len(s.ds) < 2 THEN Starve(s) ELSE Return(s3, self_get_obs(s3), 0, FALSE)

\* The ACTION_SPLIT branch of step, past its legality test.
Split(s) ==
    LET i == s.current_hand + 1
        hand == s.player_hands[i]
        card == hand[Len(hand)]
        s1 == [s EXCEPT !.player_hands =
                            Insert([@ EXCEPT ![i] = SubSeq(hand, 1, Len(hand) - 1)],
                                   s.current_hand + 1, <<card>>),
                        !.bets = Insert(@, s.current_hand + 1, s.bets[i])]
        s2 == HandDraws(s1, i)
        s3 == HandDraws(s2, i + 1)
    IN IF Len(s.ds) < 2 THEN Starve(s) ELSE Return(s3, self_get_obs(s3), 0, FALSE)

\* BlackjackEnv.step
step(s, action) ==
    IF s.done THEN Raise(s, "AssertionError", "Episode over; call reset() first.")
    ELSE
    LET i == s.current_hand + 1
        hand == s.player_hands[i]
    IN IF action = ACTION_HIT
       THEN IF s.ds = <<>> THEN Starve(s)
            ELSE LET s1 == HandDraws(s, i) IN
                 IF is_bust(s1.player_hands[i])
                 THEN finalize_hand(s1, -(s1.bets[i] * Stake))
                 ELSE Return(s1, self_get_obs(s1), 0, FALSE)
       ELSE IF action = ACTION_STAND
       THEN next_or_dealer(s)
       ELSE IF action = ACTION_DOUBLE
       THEN IF ~DoubleAllowed(hand) THEN Raise(s, "ValueError", "Double only on first two cards")
            ELSE IF s.ds = <<>> THEN Starve(s)
            ELSE next_or_dealer(HandDraws([s EXCEPT !.bets[i] = @ * 2], i))
       ELSE IF action = ACTION_SPLIT
       THEN IF ~SplitAllowed(hand) THEN Raise(s, "ValueError", "Split only on identical pairs")
            ELSE Split(s)
       ELSE Raise(s, "ValueError", "Unknown action")

\* The attributes reset() sets and the initial deal, common to both classes.
Deal(s) ==
    LET c == s.ds IN
    [s EXCEPT !.dealer = <<c[2], c[4]>>,
              !.player_hands = << <<c[1], c[3]>> >>,
              !.bets = <<1>>,
              !.current_hand = 0,
              !.done = FALSE,
              !.outcomes = <<>>,
              !.ds = SubSeq(c, 5, Len(c))]

\* BlackjackEnv.reset
reset(s) ==
    IF Len(s.ds) < 4 THEN Starve(s)
    ELSE LET s1 == Deal(s) IN ReturnObs(s1, get_obs(s1))

\* dealer_play_initial, the dealer standing on its two cards.
dealer_play_initial_stands(s) == s

\* ReverseBlackjackEnv._dealer_play_initial
dealer_play_initial(s) == Reverse_DealerLoop(s)

\* ReverseBlackjackEnv.reset
Reverse_reset(s) ==
    IF Len(s.ds) < 4 THEN Starve(s)
    ELSE LET s1 == dealer_play_initial(Deal(s)) IN
         IF s1.starved THEN Starve(s1) ELSE ReturnObs(s1, Reverse_get_obs(s1))

\* env.reset()
self_reset(s) == IF s.variant = "reverse" THEN Reverse_reset(s) ELSE reset(s)

----------------------------------------------------------------------------
\* Floats, kept as fractions <<numerator, denominator>> in lowest terms.

RECURSIVE GCD(_, _)
GCD(a, b) == IF b = 0 THEN a ELSE GCD(b, a % b)

Abs(n) == IF n < 0 THEN -n ELSE n

Frac(n, d) ==
    LET g == GCD(Abs(n), Abs(d))
        sign == IF d < 0 THEN -1 ELSE 1
    IN <<sign * (n \div g), sign * (d \div g)>>

Zero == Frac(0, 1)

\* The least common denominator of x and y.
LCD(x, y) == (x[2] \div GCD(x[2], y[2])) * y[2]

\* The numerator of x over the denominator d, a multiple of its own.
Over(x, d) == x[1] * (d \div x[2])

FAdd(x, y) == Frac(Over(x, LCD(x, y)) + Over(y, LCD(x, y)), LCD(x, y))
FSub(x, y) == Frac(Over(x, LCD(x, y)) - Over(y, LCD(x, y)), LCD(x, y))
FMul(x, y) == Frac(x[1] * y[1], x[2] * y[2])
FLess(x, y) == Over(x, LCD(x, y)) < Over(y, LCD(x, y))

----------------------------------------------------------------------------
\* QLearningAgent

\* QLearningAgent.__init__ defaults: alpha 0.1, gamma 0.99, epsilon 0.2.
Default_alpha == Frac(1, 10)
Default_gamma == Frac(99, 100)
Default_epsilon == Frac(1, 5)

\* The actions of the learner, in the order the rows of Q hold them.
QActions == <<ACTION_HIT, ACTION_STAND>>

\* The row the defaultdict makes for a key it does not hold:
\* {a: 0.0 for a in [ACTION_HIT, ACTION_STAND]}, as its items in order.
DefaultRow == [i \in 1..Len(QActions) |-> <<QActions[i], Zero>>]

\* defaultdict(factory): no row stored, and the row it makes for a new key.
EmptyTable == [rows |-> [k \in {} |-> DefaultRow], factory |-> DefaultRow]

\* No file was written.
NoFile == [exists |-> FALSE]

\* state_key, the dealer's first card taken in both variants.
state_key_first(obs) ==
    LET sum == Total(obs.player)
        psum == IF obs.usable_ace /\ sum + 10 <= 21 THEN sum + 10 ELSE sum
        dealer_val == IF "dealer_up" \in DOMAIN obs THEN VALUE_MAP[obs.dealer_up]
                      ELSE VALUE_MAP[obs.dealer_cards[1]]
    IN <<psum, dealer_val, obs.usable_ace>>

\* state_key, the player's sum never promoted.
state_key_hard(obs) ==
    LET psum == Total(obs.player)
        dealer_val == IF "dealer_up" \in DOMAIN obs THEN VALUE_MAP[obs.dealer_up]
                      ELSE obs.dealer_value
    IN <<psum, dealer_val, obs.usable_ace>>

\* QLearningAgent._state_key
state_key(obs) ==
    LET sum == Total(obs.player)
        psum == IF obs.usable_ace /\ sum + 10 <= 21 THEN sum + 10 ELSE sum
        dealer_val == IF "dealer_up" \in DOMAIN obs THEN VALUE_MAP[obs.dealer_up]
                      ELSE obs.dealer_value
    IN <<psum, dealer_val, obs.usable_ace>>

\* self.Q[key] on the defaultdict: the row of a key not stored is made by
\* the factory and stored.
Touch(table, key) ==
    IF key \in DOMAIN table.rows THEN table
    ELSE [table EXCEPT !.rows = [k \in DOMAIN table.rows \cup {key} |->
                                    IF k = key THEN table.factory ELSE table.rows[k]]]

\* a in qvals
HasAction(row, a) == \E i \in 1..Len(row) : row[i][1] = a

\* qvals[a], qvals.get(a)
Get(row, a) == row[CHOOSE i \in 1..Len(row) : row[i][1] = a][2]

\* Put, every estimate of the row overwritten.
Put_all(row, a, v) == [i \in 1..Len(row) |-> <<row[i][1], v>>]

\* qvals[a] = v, a being a key of the row.
Put(row, a, v) == [i \in 1..Len(row) |-> IF row[i][1] = a THEN <<a, v>> ELSE row[i]]

RECURSIVE MaxFrom(_, _, _)
\* The loop of max(): the item at best is replaced by a later one that is greater.
MaxFrom(row, i, best) ==
    IF i > Len(row) THEN best
    ELSE MaxFrom(row, i + 1, IF FLess(row[best][2], row[i][2]) THEN i ELSE best)

RECURSIVE MinFrom(_, _, _)
\* MaxFrom, an item replaced by a later one that is less.
MinFrom(row, i, best) ==
    IF i > Len(row) THEN best
    ELSE MinFrom(row, i + 1, IF FLess(row[i][2], row[best][2]) THEN i ELSE best)

\* MaxValue, the least estimate taken.
MaxValue_min(row) == row[MinFrom(row, 2, 1)][2]

\* max(self.Q[next_state].values())
MaxValue(row) == row[MaxFrom(row, 2, 1)][2]

RECURSIVE LastMaxFrom(_, _, _)
\* MaxFrom, an item replaced by a later one that is not less.
LastMaxFrom(row, i, best) ==
    IF i > Len(row) THEN best
    ELSE LastMaxFrom(row, i + 1, IF FLess(row[i][2], row[best][2]) THEN best ELSE i)

\* ArgMax, a tie going to the later action.
ArgMax_last(row) == row[LastMaxFrom(row, 2, 1)][1]

\* max(qvals, key=qvals.get)
ArgMax(row) == row[MaxFrom(row, 2, 1)][1]

\* random.random() < self.epsilon can be true, random() being in [0, 1).
CanExplore(eps) == FLess(Zero, eps)

\* random.random() < self.epsilon can be false.
CanExploit(eps) == FLess(eps, Frac(1, 1))

\* QLearningAgent.act, explore being random.random() < self.epsilon and
\* pick what random.choice([ACTION_HIT, ACTION_STAND]) gives.
act(table, obs, explore, pick) ==
    LET state == state_key(obs) IN
    IF explore THEN [Q |-> table, raised |-> "none", action |-> pick]
    ELSE LET t1 == Touch(table, state)
             qvals == t1.rows[state]
         IN [Q |-> t1, raised |-> "none", action |-> ArgMax(qvals)]

\* The observation is {}: obs['player'] raises KeyError.
IsEmpty(obs) == "empty" \in DOMAIN obs

\* QLearningAgent.observe
observe(table, al, ga, obs, action, reward, next_obs, d) ==
    IF IsEmpty(obs) \/ (~d /\ IsEmpty(next_obs))
    THEN [Q |-> table, raised |-> "KeyError"]
    ELSE
    LET state == state_key(obs)
        t1 == IF d THEN table ELSE Touch(table, state_key(next_obs))
        target == IF d THEN reward
                  ELSE FAdd(reward, FMul(ga, MaxValue(t1.rows[state_key(next_obs)])))
        t2 == Touch(t1, state)
    IN IF ~HasAction(t2.rows[state], action)
       THEN [Q |-> t2, raised |-> "KeyError"]
       ELSE LET old_val == Get(t2.rows[state], action) IN
            [Q |-> [t2 EXCEPT !.rows[state] =
                        Put(@, action, FAdd(old_val, FMul(al, FSub(target, old_val))))],
             raised |-> "none"]

\* pickle_dump, the rows that hold only zeros left out.
pickle_dump_sparse(d) ==
    [exists |-> TRUE,
     items |-> {<<k, d[k]>> : k \in {j \in DOMAIN d : d[j] # DefaultRow}}]

\* pickle.dump(d, f): the file holds the items of the dict.
pickle_dump(d) == [exists |-> TRUE, items |-> {<<k, d[k]>> : k \in DOMAIN d}]

\* pickle.load(f): the dict of the items the file holds.
pickle_load(f) ==
    [k \in {it[1] : it \in f.items} |-> (CHOOSE it \in f.items : it[1] = k)[2]]

\* QLearningAgent.save: dict(self.Q) is the rows without the factory.
save(table) == pickle_dump(table.rows)

\* QLearningAgent.load, the file being there.
load(f) == [rows |-> pickle_load(f), factory |-> DefaultRow]

----------------------------------------------------------------------------
\* RandomAgent

\* self.actions
RandomAgent_actions == <<ACTION_HIT, ACTION_STAND, ACTION_DOUBLE, ACTION_SPLIT>>

\* legal, nothing filtered out.
legal_unfiltered(obs) == {RandomAgent_actions[i] : i \in 1..Len(RandomAgent_actions)}

\* The list legal of RandomAgent.act, as a set.
legal(obs) ==
    {a \in {RandomAgent_actions[i] : i \in 1..Len(RandomAgent_actions)} :
        /\ ~(a = ACTION_DOUBLE /\ ~obs.can_double)
        /\ ~(a = ACTION_SPLIT /\ ~obs.can_split)}

\* RandomAgent.act: what random.choice(legal) can return.
RandomAgent_act(obs) == legal(obs)

----------------------------------------------------------------------------
\* Calls of the engine.

ResetCall == [op |-> "reset"]
StepCall(a) == [op |-> "step", action |-> a]

\* The call on the engine s, the shoe yielding the cards ds.
Exec(s, call, ds) ==
    IF call.op = "reset" THEN self_reset([s EXCEPT !.ds = ds])
    ELSE step([s EXCEPT !.ds = ds], call.action)

RECURSIVE Runs(_, _, _, _)
\* The runs of the call on the engine s: the cards ds the shoe yields during
\* the call, the pile it is left with, and the call's result r.  ds is drawn
\* already and left the pile.
Runs(s, call, ds, pile) ==
    LET r == Exec(s, call, ds) IN
    IF r.self.starved
    THEN UNION {Runs(s, call, Append(ds, c), draw(pile, c)) : c \in Drawable(pile)}
    ELSE {[ds |-> ds, pile |-> pile, r |-> r]}

\* The action codes a caller may pass: the four actions and an unknown code.
ActionCodes == {ACTION_HIT, ACTION_STAND, ACTION_DOUBLE, ACTION_SPLIT, 4}

\* len(hand.cards), summed over the player's hands.
RECURSIVE PlayerCards(_)
PlayerCards(hands) == IF hands = <<>> THEN 0 ELSE Len(Head(hands)) + PlayerCards(Tail(hands))

\* The calls the bounds admit.
WithinBounds(call) ==
    IF call.op = "reset" \/ done THEN TRUE
    ELSE LET hand == player_hands[current_hand + 1]
             n == PlayerCards(player_hands)
         IN /\ call.action = ACTION_HIT => Len(hand) < MaxHandCards /\ n + 1 <= MaxCards
            /\ (call.action = ACTION_DOUBLE /\ Len(hand) = 2) => n + 1 <= MaxCards
            /\ (call.action = ACTION_SPLIT /\ can_split(hand)) => n + 2 <= MaxCards

\* What a call leaves in ret: the call with what it returned, or what it raised.
Returned(call, r) ==
    IF r.raised # "none"
    THEN [op |-> call.op, raised |-> r.raised, message |-> r.message]
    ELSE IF call.op = "reset"
    THEN [op |-> "reset", raised |-> "none", obs |-> r.obs]
    ELSE [op |-> "step", action |-> call.action, raised |-> "none",
          obs |-> r.obs, reward |-> r.reward, done |-> r.done]

\* The call is made and runs as run.
Call(call, run) ==
    /\ dealer' = run.r.self.dealer
    /\ player_hands' = run.r.self.player_hands
    /\ bets' = run.r.self.bets
    /\ current_hand' = run.r.self.current_hand
    /\ done' = run.r.self.done
    /\ outcomes' = run.r.self.outcomes
    /\ cards' = run.pile
    /\ since_rebuild' = Since(since_rebuild, cards, run.ds)
    /\ ret' = Returned(call, run.r)
    /\ total_reward' = IF run.r.raised # "none" THEN total_reward
                       ELSE IF call.op = "reset" THEN 0
                       ELSE total_reward + run.r.reward
    /\ drawn' = IF call.op = "reset" THEN run.ds ELSE drawn \o run.ds
    /\ steps' = IF call.op = "reset" THEN 0
                ELSE IF run.r.raised # "none" THEN steps
                ELSE steps + 1
    /\ UNCHANGED <<variant, dealer_hits_soft17, shoe_params, hand_cards, agent_vars>>

\* The drivers (train.py, play.py) catch no exception: a call that raised
\* is the last call made.
Running == ret.raised = "none"

\* self.reset(), as BlackjackEnv.__init__ calls it once the shoe is built.
\* A later round starts as this one does, but for the pile of the shoe.
Reset ==
    /\ Running
    /\ ret.op = "init"
    /\ \E run \in Runs(Self, ResetCall, <<>>, cards) : Call(ResetCall, run)

\* env.step(a)
Step(a) ==
    /\ Running
    /\ ret.op # "init"
    /\ WithinBounds(StepCall(a))
    /\ \E run \in Runs(Self, StepCall(a), <<>>, cards) : Call(StepCall(a), run)

\* The engine of class v as __init__ has it when it calls reset().
New(v, h) ==
    [variant |-> v, dealer_hits_soft17 |-> h, dealer |-> <<>>,
     player_hands |-> <<>>, bets |-> <<>>, current_hand |-> 0, done |-> FALSE,
     outcomes |-> <<>>, ds |-> <<>>, starved |-> FALSE]

\* No hand is built on its own.
NoHand == hand_cards = <<>>

\* The learner as QLearningAgent() builds it, never called.
NoAgent ==
    /\ alpha = Default_alpha
    /\ gamma = Default_gamma
    /\ epsilon = Default_epsilon
    /\ Q = EmptyTable
    /\ file = NoFile
    /\ observed = 0

\* BlackjackEnv.__init__ of either class, up to its call of reset(): the
\* payout and the soft-17 rule are set and the shoe is built.
Init ==
    /\ variant \in {"standard", "reverse"}
    /\ dealer_hits_soft17 \in BOOLEAN
    /\ shoe_num_decks = num_decks
    /\ shoe_reshuffle_threshold = reshuffle_threshold
    /\ cards = build_shoe
    /\ since_rebuild = 0
    /\ dealer = New(variant, dealer_hits_soft17).dealer
    /\ player_hands = New(variant, dealer_hits_soft17).player_hands
    /\ bets = New(variant, dealer_hits_soft17).bets
    /\ current_hand = New(variant, dealer_hits_soft17).current_hand
    /\ done = New(variant, dealer_hits_soft17).done
    /\ outcomes = New(variant, dealer_hits_soft17).outcomes
    /\ ret = [op |-> "init", raised |-> "none"]
    /\ total_reward = 0
    /\ drawn = <<>>
    /\ steps = 0
    /\ NoHand
    /\ NoAgent

Next == Reset \/ \E a \in ActionCodes : Step(a)

Spec == Init /\ [][Next]_vars

----------------------------------------------------------------------------
\* A round played by the RandomAgent, as the loop of play.py drives it.

\* action = agent.act(obs); obs, reward, done, _ = env.step(action),
\* while not done.
PlayStep ==
    /\ ret.op # "init"
    /\ Running
    /\ ~done
    /\ \E a \in RandomAgent_act(ret.obs) : Step(a)

PlayNext == Reset \/ PlayStep

PlaySpec == Init /\ [][PlayNext]_vars

----------------------------------------------------------------------------
\* The shoe on its own: Shoe(num_decks, reshuffle_threshold) and its draw().

\* No engine is built: its attributes are those of New, never touched.
NoEngine ==
    /\ variant = "standard"
    /\ dealer_hits_soft17 = FALSE
    /\ dealer = New(variant, dealer_hits_soft17).dealer
    /\ player_hands = New(variant, dealer_hits_soft17).player_hands
    /\ bets = New(variant, dealer_hits_soft17).bets
    /\ current_hand = New(variant, dealer_hits_soft17).current_hand
    /\ done = New(variant, dealer_hits_soft17).done
    /\ outcomes = New(variant, dealer_hits_soft17).outcomes
    /\ total_reward = 0
    /\ drawn = <<>>
    /\ steps = 0

\* The thresholds a shoe of n decks is built with: below and at zero, small,
\* around the size of the pile, and the default.
Thresholds(n) ==
    LET full == Cardinality(Ranks) * SuitsPerDeck * n IN
    {-1, 0, 1, 2, full - 1, full, full + 1, reshuffle_threshold}

\* Shoe.__init__
ShoeInit ==
    /\ shoe_num_decks \in 1..MaxDecks
    /\ shoe_reshuffle_threshold \in Thresholds(shoe_num_decks)
    /\ cards = build_shoe
    /\ since_rebuild = 0
    /\ NoEngine
    /\ NoHand
    /\ NoAgent
    /\ ret = [op |-> "init", raised |-> "none"]

\* shoe.draw(): ret holds the card returned and whether the pile was rebuilt
\* for it, or the IndexError of popleft() on an empty pile.
ShoeDraw ==
    /\ Running
    /\ IF Drawable(cards) = {}
       THEN /\ ret' = [op |-> "draw", raised |-> "IndexError",
                       message |-> "pop from an empty deque"]
            /\ cards' = PileAtDraw(cards)
            /\ since_rebuild' = since_rebuild
       ELSE \E c \in Drawable(cards) :
            /\ ret' = [op |-> "draw", raised |-> "none", card |-> c,
                       rebuilt |-> Rebuilds(cards)]
            /\ cards' = draw(cards, c)
            /\ since_rebuild' = Since(since_rebuild, cards, <<c>>)
    /\ UNCHANGED <<engine_vars, shoe_params, hand_cards, agent_vars>>

ShoeNext == ShoeDraw

ShoeSpec == ShoeInit /\ [][ShoeNext]_vars

----------------------------------------------------------------------------
\* A hand on its own: Hand(), add() and the four queries.

\* The shoe as BlackjackEnv() builds it, never drawn from.
NoShoe ==
    /\ shoe_num_decks = num_decks
    /\ shoe_reshuffle_threshold = reshuffle_threshold
    /\ cards = build_shoe
    /\ since_rebuild = 0

\* Hand()
HandInit ==
    /\ hand_cards = <<>>
    /\ ret = [op |-> "init", raised |-> "none"]
    /\ NoEngine
    /\ NoShoe
    /\ NoAgent

\* hand.add(c), for any of the thirteen ranks.
HandAdd(c) ==
    /\ Len(hand_cards) < MaxHandCards
    /\ hand_cards' = Append(hand_cards, c)
    /\ ret' = [op |-> "add", raised |-> "none"]
    /\ UNCHANGED <<engine_vars, shoe_params, cards, since_rebuild, agent_vars>>

\* hand.value(), hand.usable_ace(), hand.is_bust(), hand.can_split()
HandQuery ==
    /\ ret.op # "query"
    /\ ret' = [op |-> "query", raised |-> "none",
               value |-> value(hand_cards),
               usable_ace |-> usable_ace(hand_cards),
               is_bust |-> is_bust(hand_cards),
               can_split |-> can_split(hand_cards)]
    /\ UNCHANGED <<hand_cards, engine_vars, shoe_params, cards, since_rebuild,
                   agent_vars>>

HandNext == HandQuery \/ \E c \in AllRanks : HandAdd(c)

HandSpec == HandInit /\ [][HandNext]_vars

----------------------------------------------------------------------------
\* The learner on its own: act, observe, save and load called on observations
\* of both engines.

\* A round of class v with one player hand, at the cursor, and the dealer d.
SampleRound(v, hand, d) ==
    [New(v, FALSE) EXCEPT !.player_hands = <<hand>>, !.bets = <<1>>, !.dealer = d]

\* The observations passed to the learner: a pair of the standard engine,
\* which may be doubled and split, and a soft hand of the reverse engine
\* against a bust dealer.
Observations ==
    {get_obs(SampleRound("standard", <<"10", "10">>, <<"6", "10">>)),
     Reverse_get_obs(SampleRound("reverse", <<"A", "6">>, <<"6", "10", "10">>))}

\* The rewards passed to observe(): a loss, nothing, a natural.
Rewards == {Frac(-1, 1), Zero, Frac(natural_payout[1], natural_payout[2])}

\* The learners built: the default one, and one that never explores.
AgentConfigs ==
    {<<Default_alpha, Default_gamma, Default_epsilon>>,
     <<Frac(1, 2), Frac(1, 1), Zero>>}

\* QLearningAgent(alpha, gamma, epsilon)
AgentInit ==
    /\ \E c \in AgentConfigs : alpha = c[1] /\ gamma = c[2] /\ epsilon = c[3]
    /\ Q = EmptyTable
    /\ file = NoFile
    /\ observed = 0
    /\ ret = [op |-> "init", raised |-> "none"]
    /\ NoEngine
    /\ NoShoe
    /\ NoHand

\* What the agent's call leaves unchanged besides the agent.
AgentFrame == UNCHANGED <<engine_vars, shoe_params, cards, since_rebuild, hand_cards,
                          agent_params>>

\* agent.act(obs)
AgentAct(obs, explore, pick) ==
    /\ Running
    /\ IF explore THEN CanExplore(epsilon) ELSE CanExploit(epsilon) /\ pick = ACTION_HIT
    /\ LET r == act(Q, obs, explore, pick) IN
         /\ Q' = r.Q
         /\ ret' = [op |-> "act", raised |-> "none", obs |-> obs,
                    explore |-> explore, action |-> r.action]
    /\ UNCHANGED <<file, observed>>
    /\ AgentFrame

\* agent.observe(obs, action, reward, next_obs, d), made before any save().
AgentObserve(obs, action, reward, next_obs, d) ==
    /\ Running
    /\ file = NoFile
    /\ observed < MaxObserve
    /\ LET r == observe(Q, alpha, gamma, obs, action, reward, next_obs, d) IN
         /\ Q' = r.Q
         /\ ret' = [op |-> "observe", raised |-> r.raised, obs |-> obs,
                    action |-> action, reward |-> reward, next_obs |-> next_obs,
                    done |-> d]
    /\ observed' = observed + 1
    /\ UNCHANGED file
    /\ AgentFrame

\* agent.save(filepath)
AgentSave ==
    /\ Running
    /\ file = NoFile
    /\ file' = save(Q)
    /\ ret' = [op |-> "save", raised |-> "none"]
    /\ UNCHANGED <<Q, observed>>
    /\ AgentFrame

\* agent = QLearningAgent(), a fresh learner to load the file into.
AgentNew ==
    /\ Running
    /\ file # NoFile
    /\ Q' = EmptyTable
    /\ ret' = [op |-> "new", raised |-> "none"]
    /\ UNCHANGED <<file, observed>>
    /\ AgentFrame

\* agent.load(filepath): open() raises if no file was written.
AgentLoad ==
    /\ Running
    /\ IF file = NoFile
       THEN /\ ret' = [op |-> "load", raised |-> "FileNotFoundError"]
            /\ Q' = Q
       ELSE /\ ret' = [op |-> "load", raised |-> "none"]
            /\ Q' = load(file)
    /\ UNCHANGED <<file, observed>>
    /\ AgentFrame

AgentNext ==
    \/ \E obs \in Observations, explore \in BOOLEAN, pick \in {ACTION_HIT, ACTION_STAND} :
           AgentAct(obs, explore, pick)
    \/ \E obs \in Observations, action \in {ACTION_HIT, ACTION_STAND, ACTION_DOUBLE},
          reward \in Rewards, next_obs \in Observations \cup {EmptyObs}, d \in BOOLEAN :
           AgentObserve(obs, action, reward, next_obs, d)
    \/ AgentSave
    \/ AgentNew
    \/ AgentLoad

AgentSpec == AgentInit /\ [][AgentNext]_vars

----------------------------------------------------------------------------
\* The claims.

\* The last call was a step that returned.
Stepped == ret.op = "step" /\ ret.raised = "none"

\* The last call was the step that settled the round: the Stand or Double
\* after which no hand remained.
Settled == Stepped /\ ret.done /\ ret.action \in {ACTION_STAND, ACTION_DOUBLE}

\* The settlement table of the specification, in its priority order.
TableResult(hand, bet, d) ==
    LET h == value(hand)
        dv == value(d)
    IN CASE Len(hand) = 2 /\ h = 21 -> [outcome |-> "blackjack", reward |-> bet * 3]
         [] ~(Len(hand) = 2 /\ h = 21) /\ h > 21 -> [outcome |-> "loss", reward |-> -(bet * 2)]
         [] ~(Len(hand) = 2 /\ h = 21) /\ h <= 21 /\ (dv > 21 \/ h > dv) ->
                [outcome |-> "win", reward |-> bet * 2]
         [] ~(Len(hand) = 2 /\ h = 21) /\ h <= 21 /\ dv <= 21 /\ h < dv ->
                [outcome |-> "loss", reward |-> -(bet * 2)]
         [] OTHER -> [outcome |-> "push", reward |-> 0]

\* The rewards of the table, over all the hands of the round.
TableTotal ==
    SumSeq([i \in 1..Len(player_hands) |->
               TableResult(player_hands[i], bets[i], dealer).reward])

\* C1: once the round is terminal the outcome log holds one tag per player
\* hand, in play order, outcomes[i] being the result of hand i; before, the
\* log is shorter than the list of hands.
C1_OneOutcomePerHand ==
    ret.op # "init" =>
        IF done
        THEN /\ Len(outcomes) = Len(player_hands)
             /\ \A i \in 1..Len(player_hands) :
                    outcomes[i] = TableResult(player_hands[i], bets[i], dealer).outcome
        ELSE Len(outcomes) < Len(player_hands)

\* C2: over a round that ends in settlement, the step rewards add up to the
\* rewards of the hands, each hand counted once.
C2_EachHandPaidOnce == Settled => total_reward = TableTotal

\* C3: a Hit draws one card into the hand at the cursor; a bust logs loss,
\* returns -bet, advances the cursor and ends the round iff no hand remains;
\* otherwise the same hand is observed, with reward 0, and nothing else moves.
C3_Hit ==
    [][(ret'.op = "step" /\ ret'.raised = "none" /\ ret'.action = ACTION_HIT) =>
        LET i == current_hand + 1
            c == drawn'[Len(drawn')]
        IN /\ Len(drawn') = Len(drawn) + 1
           /\ player_hands' = [player_hands EXCEPT ![i] = Append(@, c)]
           /\ bets' = bets
           /\ dealer' = dealer
           /\ IF value(player_hands'[i]) > 21
              THEN /\ outcomes' = Append(outcomes, "loss")
                   /\ ret'.reward = -(bets[i] * 2)
                   /\ current_hand' = current_hand + 1
                   /\ ret'.done <=> (current_hand' = Len(player_hands'))
                   /\ done' = ret'.done
              ELSE /\ outcomes' = outcomes
                   /\ ret'.reward = 0
                   /\ ~ret'.done
                   /\ ~done'
                   /\ current_hand' = current_hand
                   /\ ret'.obs.player = player_hands'[i]]_vars

\* C3: a Hit has bust a hand while another hand remained.
C3_Witness ==
    /\ Stepped /\ ret.action = ACTION_HIT
    /\ ~ret.done
    /\ ret.reward < 0
    /\ current_hand = 1

\* C4: a Stand or Double that leaves a hand to play returns reward 0.
C4_NonTerminalStandDoubleZero ==
    (Stepped /\ ret.action \in {ACTION_STAND, ACTION_DOUBLE} /\ ~ret.done) =>
        ret.reward = 0

\* What makes action a legal at the cursor.
LegalStep(a) ==
    /\ ~done
    /\ a \in {0, 1, 2, 3}
    /\ a = 2 => Len(player_hands[current_hand + 1]) = 2
    /\ a = 3 => /\ Len(player_hands[current_hand + 1]) = 2
                /\ player_hands[current_hand + 1][1] = player_hands[current_hand + 1][2]

\* C5: a step returns only if it is legal; a step that is not raises, for
\* the rule it breaks, and leaves hands, bets, cursor, outcome log, terminal
\* flag, dealer hand and shoe as they were.
C5_IllegalStepFails ==
    [][ret'.op = "step" =>
        IF ret'.raised = "none"
        THEN LegalStep(ret'.action)
        ELSE /\ UNCHANGED <<player_hands, bets, current_hand, outcomes, done,
                            dealer, cards, drawn>>
             /\ ret'.message = "Episode over; call reset() first." => done
             /\ ret'.message = "Double only on first two cards" =>
                    ~done /\ Len(player_hands[current_hand + 1]) # 2
             /\ ret'.message = "Split only on identical pairs" =>
                    ~done /\ ~LegalStep(3)
             /\ ret'.message = "Unknown action" => ~done]_vars

\* C5: a Double on a hand of three cards has raised.
C5_Witness ==
    /\ ret.op = "step"
    /\ ret.raised = "ValueError"
    /\ ret.message = "Double only on first two cards"
    /\ Len(player_hands[current_hand + 1]) = 3

C7_Settlement ==
    Settled =>
        LET n == Len(player_hands)
            k == Len(outcomes) - n
        IN /\ k >= 0
           /\ \A i \in 1..n :
                /\ outcomes[k + i] = TableResult(player_hands[i], bets[i], dealer).outcome
                /\ Reverse_HandResult(player_hands[i], bets[i], dealer)
                       = HandResult(player_hands[i], bets[i], dealer)
                /\ HandResult(player_hands[i], bets[i], dealer)
                       = TableResult(player_hands[i], bets[i], dealer)
           /\ ret.reward = TableTotal

\* C7: a two-card 21 made after a split was settled against a dealer's 21.
C7_Witness ==
    /\ Settled
    /\ Len(player_hands) = 2
    /\ value(player_hands[2]) = 21
    /\ value(dealer) = 21
    /\ outcomes[Len(outcomes)] = "blackjack"

\* C8: a finished standard round of a single, unsplit hand logs one outcome,
\* and the reward of its last step has the sign of that outcome.
C8_SingleHand ==
    (variant = "standard" /\ Stepped /\ ret.done /\ Len(player_hands) = 1) =>
        /\ Len(outcomes) = 1
        /\ outcomes[1] \in {"blackjack", "win", "loss", "push"}
        /\ outcomes[1] \in {"blackjack", "win"} <=> ret.reward > 0
        /\ outcomes[1] = "loss" <=> ret.reward < 0
        /\ outcomes[1] = "push" <=> ret.reward = 0

\* C8: a doubled single hand was settled as a loss.
C8_Witness ==
    /\ variant = "standard" /\ Settled /\ ret.action = ACTION_DOUBLE
    /\ Len(player_hands) = 1
    /\ outcomes = <<"loss">>
    /\ ret.reward = -4

\* The dealer's play is over: at settlement in the standard variant, from
\* reset() on in the reverse variant.
DealerPlayed ==
    /\ ret.raised = "none"
    /\ IF variant = "reverse" THEN ret.op \in {"reset", "step"} ELSE Settled

\* The dealer draws on hand d.
DrawCondition(d) ==
    \/ value(d) < 17
    \/ dealer_hits_soft17 /\ value(d) = 17 /\ usable_ace(d)

\* C9: once the dealer has played, the hand stops the draw condition, its
\* value is in 17..26, and every hand the dealer drew on met the condition.
C9_DealerPolicy ==
    DealerPlayed =>
        /\ ~DrawCondition(dealer)
        /\ value(dealer) \in 17..26
        /\ ~(dealer_hits_soft17 /\ value(dealer) = 17 /\ usable_ace(dealer))
        /\ \A k \in 2..(Len(dealer) - 1) : DrawCondition(SubSeq(dealer, 1, k))

\* C9: the dealer has hit a soft 17.
C9_Witness ==
    /\ DealerPlayed
    /\ dealer_hits_soft17
    /\ Len(dealer) > 2
    /\ value(SubSeq(dealer, 1, 2)) = 17 /\ usable_ace(SubSeq(dealer, 1, 2))

\* The dealer hand reset() of the reverse variant reveals when the shoe
\* yields the cards ds.
ReverseReveals(ds) ==
    Exec(New("reverse", dealer_hits_soft17), ResetCall, ds).self.dealer

\* C10 as stated: the dealer of the standard variant settles with the hand
\* the reverse variant reveals on the same cards.
C10_SameDealerHand ==
    (variant = "standard" /\ Settled) =>
        /\ ReverseReveals(drawn) = dealer
        /\ value(ReverseReveals(drawn)) = value(dealer)

\* C10, amended: so it is when the player drew no card before the dealer
\* played, or the dealer's two cards made it stop.
C10_SameDealerHandIfNoCardBetween ==
    (variant = "standard" /\ Settled
        /\ (PlayerCards(player_hands) = 2 \/ Len(dealer) = 2)) =>
        /\ ReverseReveals(drawn) = dealer
        /\ value(ReverseReveals(drawn)) = value(dealer)

\* C10: the player stood at once and the dealer drew.
C10_Witness ==
    /\ variant = "standard" /\ Settled
    /\ PlayerCards(player_hands) = 2
    /\ Len(dealer) > 2

FullShoe == Cardinality(Ranks) * 4 * shoe_num_decks

\* C12: every draw() returns a rank, whatever the deck count and the
\* threshold, and a pile just built holds the full number of cards: all of
\* them after construction, all but the card drawn after a rebuild in draw().
C12_DrawNeverFails ==
    /\ ret.op = "init" => ShoeLen(cards) = FullShoe
    /\ ret.op = "draw" =>
          /\ ret.raised = "none"
          /\ ret.card \in AllRanks
          /\ ret.rebuilt => ShoeLen(cards) = FullShoe - 1

RankValue(c) ==
    CASE c = "A" -> 1
      [] c \in {"J", "Q", "K"} -> 10
      [] OTHER -> CHOOSE n \in 2..10 : <<"2", "3", "4", "5", "6", "7", "8", "9", "10">>[n - 1] = c

RECURSIVE RawSum(_)
\* The raw card sum of a hand.
RawSum(h) == IF h = <<>> THEN 0 ELSE RankValue(Head(h)) + RawSum(Tail(h))

\* C14: value() is the raw sum or the raw sum plus 10, the latter exactly
\* when the hand holds an ace and raw sum + 10 <= 21; usable_ace() iff value()
\* differs from the raw sum; is_bust() iff value() > 21; can_split() iff the
\* hand is two cards of the same rank.
C14_HandQueries ==
    ret.op = "query" =>
        LET raw == RawSum(hand_cards)
            ace == \E i \in 1..Len(hand_cards) : hand_cards[i] = "A"
        IN /\ ret.value \in {raw, raw + 10}
           /\ ret.value = raw + 10 <=> (ace /\ raw + 10 <= 21)
           /\ ret.usable_ace <=> ret.value # raw
           /\ ret.is_bust <=> ret.value > 21
           /\ ret.can_split <=>
                  (Len(hand_cards) = 2 /\ hand_cards[1] = hand_cards[2])

\* C14: the hand of a 10 and a J was found worth 20 and not splittable.
C14_Witness ==
    /\ ret.op = "query"
    /\ hand_cards = <<"10", "J">>
    /\ ret.value = 20
    /\ ~ret.can_split

\* C15: the key of an observation of a round not yet terminal holds the
\* value() and the usable_ace() of the hand at the cursor, and the value of
\* the dealer's up-card, in 1..10, in the standard variant, the total of the
\* dealer's played-out hand in the reverse variant.
C15_StateKey ==
    (ret.raised = "none" /\ ret.op \in {"reset", "step"} /\ ~done) =>
        LET hand == player_hands[current_hand + 1]
            key == state_key(ret.obs)
        IN /\ key[1] = value(hand)
           /\ key[3] = usable_ace(hand)
           /\ variant = "standard" => key[2] = RankValue(dealer[1]) /\ key[2] \in 1..10
           /\ variant = "reverse" => key[2] = value(dealer) /\ ~DrawCondition(dealer)

\* C15: a soft hand was observed against a bust dealer in the reverse variant.
C15_Witness ==
    /\ variant = "reverse"
    /\ ret.raised = "none" /\ ret.op = "reset"
    /\ usable_ace(player_hands[1])
    /\ state_key(ret.obs)[2] > 21

\* The estimate of action a at key k as the table gives it when read: the
\* stored one, 0.0 for a key not stored.
Estimate(table, k, a) ==
    IF k \in DOMAIN table.rows THEN Get(table.rows[k], a) ELSE Zero

\* The state keys stored in the table.
Stored(table) == DOMAIN table.rows

\* C16: observe() that returns sets the estimate of (key(obs), action) to
\* old + alpha * (target - old), the target being the reward when done, and
\* else the reward plus gamma times the greater of the estimates of Hit and
\* Stand at key(next_obs); an estimate not stored reads 0.0.
C16_Update ==
    [][(ret'.op = "observe" /\ ret'.raised = "none") =>
          LET k == state_key(ret'.obs)
              a == ret'.action
              old == Estimate(Q, k, a)
              n == state_key(ret'.next_obs)
              best == IF FLess(Estimate(Q, n, 0), Estimate(Q, n, 1))
                      THEN Estimate(Q, n, 1) ELSE Estimate(Q, n, 0)
              target == IF ret'.done THEN ret'.reward
                        ELSE FAdd(ret'.reward, FMul(gamma, best))
          IN Estimate(Q', k, a) = FAdd(old, FMul(alpha, FSub(target, old)))]_vars

\* C16: an update that was not terminal took its target from a next state
\* whose estimates, learnt before, differ.
C16_Witness ==
    /\ ret.op = "observe" /\ ret.raised = "none"
    /\ ~ret.done
    /\ state_key(ret.next_obs) # state_key(ret.obs)
    /\ Estimate(Q, state_key(ret.next_obs), 0) # Estimate(Q, state_key(ret.next_obs), 1)
    /\ Estimate(Q, state_key(ret.obs), ret.action) # Zero

\* C17: act() returns Hit or Stand; when it does not explore, no estimate at
\* the key of the observation is above that of the action returned, and it
\* is Hit when the two estimates are equal.
C17_ActHitOrStand ==
    ret.op = "act" =>
        /\ ret.action \in {0, 1}
        /\ ~ret.explore =>
              LET k == state_key(ret.obs) IN
              /\ \A a \in {0, 1} : ~FLess(Estimate(Q, k, ret.action), Estimate(Q, k, a))
              /\ Estimate(Q, k, 0) = Estimate(Q, k, 1) => ret.action = 0

\* C17: on a pair that may be split and doubled, the greedy act() returned
\* Stand, whose estimate was the greater.
C17_Witness ==
    /\ ret.op = "act" /\ ~ret.explore
    /\ ret.obs.can_split /\ ret.obs.can_double
    /\ ret.action = 1
    /\ FLess(Estimate(Q, state_key(ret.obs), 0), Estimate(Q, state_key(ret.obs), 1))

\* C18 as stated: act() leaves the table as it was, stored keys and
\* estimates; observe() changes the estimate of exactly one pair.
C18_TableUnchangedByAct ==
    [][/\ ret'.op = "act" => Q' = Q
       /\ (ret'.op = "observe" /\ ret'.raised = "none") =>
             Cardinality({p \in (Stored(Q) \cup Stored(Q')) \X {0, 1} :
                             Estimate(Q', p[1], p[2]) # Estimate(Q, p[1], p[2])}) = 1]_vars

\* C18, amended: act() changes no estimate, an estimate not stored reading
\* 0.0, and stores at most the row of the key of its observation; observe()
\* changes no estimate but that of (key(obs), action), and stores at most the
\* rows of key(obs) and key(next_obs).
C18_EstimatesFrame ==
    [][/\ ret'.op = "act" =>
             /\ \A p \in (Stored(Q) \cup Stored(Q')) \X {0, 1} :
                    Estimate(Q', p[1], p[2]) = Estimate(Q, p[1], p[2])
             /\ Stored(Q') \subseteq Stored(Q) \cup {state_key(ret'.obs)}
             /\ Stored(Q) \subseteq Stored(Q')
       /\ (ret'.op = "observe" /\ ret'.raised = "none") =>
             /\ \A p \in (Stored(Q) \cup Stored(Q')) \X {0, 1} :
                    p # <<state_key(ret'.obs), ret'.action>> =>
                        Estimate(Q', p[1], p[2]) = Estimate(Q, p[1], p[2])
             /\ Stored(Q') \subseteq
                    Stored(Q) \cup {state_key(ret'.obs)}
                        \cup (IF ret'.done THEN {} ELSE {state_key(ret'.next_obs)})
             /\ Stored(Q) \subseteq Stored(Q')]_vars

\* C18: act() stored a row in a table that no observe() had touched.
C18_Witness ==
    /\ ret.op = "act" /\ ~ret.explore
    /\ observed = 0
    /\ Stored(Q) = {state_key(ret.obs)}

\* The file holds the table: an item for each stored key and no other, with
\* the row of the key.
Holds(f, table) ==
    /\ f.exists
    /\ {it[1] : it \in f.items} = Stored(table)
    /\ \A it \in f.items : it[2] = table.rows[it[1]]

C20_RandomAgentLegal ==
    /\ ret.raised = "none"
    /\ (ret.op \in {"reset", "step"} /\ ~done) =>
          /\ ret.obs.can_double <=> Len(player_hands[current_hand + 1]) = 2
          /\ ret.obs.can_split <=>
                 /\ Len(player_hands[current_hand + 1]) = 2
                 /\ player_hands[current_hand + 1][1] = player_hands[current_hand + 1][2]
          /\ \A a \in RandomAgent_act(ret.obs) :
                 /\ a = 2 => ret.obs.can_double
                 /\ a = 3 => ret.obs.can_split
                 /\ LegalStep(a)

\* C20: the RandomAgent split a pair, played a hand to three cards and the
\* round ended.
C20_Witness ==
    /\ Stepped /\ ret.done
    /\ Len(player_hands) = 2
    /\ \E i \in 1..2 : Len(player_hands[i]) = 3

\* The call of a round that differs from this one in the dealer's second
\* card only, h in its place, given the same action and the same cards ds.
TwinCall(call, ds, h) ==
    IF call.op = "reset" THEN Exec(Self, call, [ds EXCEPT ![4] = h])
    ELSE Exec([Self EXCEPT !.dealer[2] = h], call, ds)

\* C21: in the standard variant, reset() and every step that does not end
\* the round return the same observation, reward and terminal flag in a round
\* that differs in the dealer's second card only, and leave the two rounds
\* differing in that card only; a step ends one round iff it ends the other;
\* dealer_up is the same in every observation of a round.
C21_HoleCardHidden ==
    [][(variant = "standard" /\ ret'.op \in {"reset", "step"} /\ ret'.raised = "none") =>
        /\ (ret'.op = "step" /\ ~ret'.done) => ret'.obs.dealer_up = ret.obs.dealer_up
        /\ \A h \in Ranks :
             LET call == IF ret'.op = "reset" THEN ResetCall ELSE StepCall(ret'.action)
                 ds == IF ret'.op = "reset" THEN drawn'
                       ELSE SubSeq(drawn', Len(drawn) + 1, Len(drawn'))
                 r == TwinCall(call, ds, h)
                 same == /\ ~r.self.starved
                         /\ r.raised = "none"
                         /\ r.obs = ret'.obs
                         /\ r.self.ds = <<>>
                         /\ r.self.player_hands = player_hands'
                         /\ r.self.bets = bets'
                         /\ r.self.current_hand = current_hand'
                         /\ r.self.done = done'
                         /\ r.self.outcomes = outcomes'
                         /\ r.self.dealer = [dealer' EXCEPT ![2] = h]
             IN IF ret'.op = "reset" THEN same
                ELSE IF ~ret'.done \/ ret'.action = ACTION_HIT
                THEN same /\ r.reward = ret'.reward /\ r.done = ret'.done
                ELSE r.self.starved \/ (r.raised = "none" /\ r.done)]_vars

\* C21: a step of the standard variant left a hand to play, after a split,
\* with a dealer whose second card, were it another, would change the
\* dealer's total.
C21_Witness ==
    /\ variant = "standard"
    /\ Stepped /\ ~ret.done
    /\ Len(player_hands) = 2
    /\ current_hand = 1
    /\ \E h \in Ranks : value(<<dealer[1], h>>) # value(dealer)

\* The cards a step draws for the player: one for a Hit or a Double, two
\* for a Split, none for a Stand.
PlayerDraws(a) ==
    CASE a = ACTION_HIT -> 1
      [] a = ACTION_DOUBLE -> 1
      [] a = ACTION_SPLIT -> 2
      [] OTHER -> 0

\* C22: in the reverse variant no step changes the dealer's hand or draws a
\* card but the player's; every observation of the round carries the dealer's
\* hand and its value as the observation before did; and the step that
\* settles pays every hand against the value the observations showed.
C22_DealerFixedAtReset ==
    [][(variant = "reverse" /\ ret'.op = "step") =>
        /\ dealer' = dealer
        /\ ret'.raised = "none" =>
              /\ Len(drawn') = Len(drawn) + PlayerDraws(ret'.action)
              /\ ~ret'.done =>
                    /\ ret'.obs.dealer_cards = ret.obs.dealer_cards
                    /\ ret'.obs.dealer_value = ret.obs.dealer_value
                    /\ ret'.obs.dealer_cards = dealer'
              /\ (ret'.done /\ ret'.action \in {ACTION_STAND, ACTION_DOUBLE}) =>
                    /\ value(ret.obs.dealer_cards) = ret.obs.dealer_value
                    /\ ret'.reward =
                          SumSeq([i \in 1..Len(player_hands') |->
                                     TableResult(player_hands'[i], bets'[i],
                                                 ret.obs.dealer_cards).reward])]_vars

\* C22: a reverse round whose dealer drew at reset() was settled after the
\* player split and drew on a hand.
C22_Witness ==
    /\ variant = "reverse"
    /\ Settled
    /\ Len(dealer) > 2
    /\ Len(player_hands) = 2
    /\ PlayerCards(player_hands) > 4

Left(hands, cur) ==
    SumSeq([i \in 1..(Len(hands) - cur) |-> 22 - Total(hands[cur + i])])

\* The Splits of the round: each adds a hand to the one reset() dealt.
Splits(hands) == Len(hands) - 1

\* C24: the dealer draws only on a raw total of 16 or less, so at most 17
\* less the total of its two cards times; a Hit raises the raw total of its
\* hand by 1 or more, a Stand and a Double advance the cursor; every hand
\* from the cursor on has a raw total of 21 or less, so that every step but a
\* Split lowers what the hands can still take, a Split raises it by 20 at
\* most, and the round is terminal exactly when nothing is left; the steps
\* made and what is left never exceed 20 and 21 for every Split.
C24_RoundsTerminate ==
    [][/\ \A k \in 2..(Len(dealer') - 1) : Total(SubSeq(dealer', 1, k)) <= 16
       /\ Len(dealer') > 2 => Len(dealer') - 2 <= 17 - Total(SubSeq(dealer', 1, 2))
       /\ (ret'.op \in {"reset", "step"} /\ ret'.raised = "none") =>
             /\ \A i \in (current_hand' + 1)..Len(player_hands') :
                    Total(player_hands'[i]) <= 21
             /\ done' <=> Left(player_hands', current_hand') = 0
             /\ steps' + Left(player_hands', current_hand')
                    <= 20 + 21 * Splits(player_hands')
       /\ (ret'.op = "step" /\ ret'.raised = "none") =>
             LET i == current_hand + 1 IN
             /\ steps' = steps + 1
             /\ ret'.action = ACTION_HIT =>
                   Total(player_hands'[i]) >= Total(player_hands[i]) + 1
             /\ ret'.action \in {ACTION_STAND, ACTION_DOUBLE} =>
                   current_hand' = current_hand + 1
             /\ IF ret'.action = ACTION_SPLIT
                THEN Left(player_hands', current_hand')
                         <= Left(player_hands, current_hand) + 20
                ELSE Left(player_hands', current_hand')
                         < Left(player_hands, current_hand)]_vars

\* C24: a round in which the player split and hit was settled by a dealer
\* that drew twice or more.
C24_Witness ==
    /\ Settled
    /\ Len(player_hands) = 2
    /\ PlayerCards(player_hands) = 5
    /\ Len(dealer) >= 4

\* The hands of n cards of the ranks the shoe holds.
RECURSIVE HandsOf(_)
HandsOf(n) ==
    IF n = 0 THEN {<<>>}
    ELSE {Append(h, c) : h \in HandsOf(n - 1), c \in Ranks}

\* The hands the dealer of the reverse variant can show, by the soft-17
\* rule: it drew on every hand before the last card, and stops on the whole.
PlayedOut ==
    [h17 \in BOOLEAN |->
        {d \in UNION {HandsOf(n) : n \in 2..MaxDealerCards} :
            /\ \A k \in 2..(Len(d) - 1) : Reverse_MustDraw(SubSeq(d, 1, k), h17)
            /\ ~Reverse_MustDraw(d, h17)}]

\* The observations the other variant returns for the player's hand at the
\* cursor: the reverse one against every hand its dealer can show, the
\* standard one against every up-card.
OtherVariantObs ==
    IF variant = "standard"
    THEN {Reverse_get_obs([Self EXCEPT !.variant = "reverse", !.dealer = d]) :
             d \in PlayedOut[dealer_hits_soft17]}
    ELSE {get_obs([Self EXCEPT !.variant = "standard", !.dealer = <<c, dealer[2]>>]) :
             c \in AllRanks}

\* C25: the key of an observation of the standard variant has its dealer
\* reference in 1..10, that of the reverse variant in 17..26, and it is the
\* key of no observation the other variant returns for the same hand.
C25_KeysNeverCollide ==
    (ret.raised = "none" /\ ret.op \in {"reset", "step"} /\ ~done) =>
        /\ variant = "standard" => state_key(ret.obs)[2] \in 1..10
        /\ variant = "reverse" => state_key(ret.obs)[2] \in 17..26
        /\ \A o \in OtherVariantObs : state_key(o) # state_key(ret.obs)

\* C25: in the reverse variant a hand was observed against a dealer that
\* drew to 17, the least reference of the variant.
C25_Witness ==
    /\ variant = "reverse"
    /\ Stepped /\ ~done
    /\ Len(dealer) = 3
    /\ state_key(ret.obs)[2] = 17

====
